---- MODULE Spec2Model ----
(***************************************************************************)
(* Model of the APIKeyVault Python clients:                                *)
(*   py-client/vault_client.py      (get-secret / get-info / whoami)       *)
(*   py-client/test_signed_query.py (getSecretInfo then getSecret)         *)
(* One behaviour is one process invocation: Init draws the script, argv    *)
(* and the environment; the contract/network answers are drawn when the    *)
(* call is sent.                                                           *)
(***************************************************************************)
EXTENDS Integers, Sequences, FiniteSets, TLC

VARIABLES script, argv, env, pc, handler, account, clientBuilt, keyRead,
          boundAbi, sent, resps, out, exc

vars == <<script, argv, env, pc, handler, account, clientBuilt, keyRead,
          boundAbi, sent, resps, out, exc>>

(* ----------------------------- bounds ---------------------------------- *)
MaxArgs == 4
MaxBytes == 3
MaxVersion == 1

(* ------------------------ values and inputs ---------------------------- *)
None == "None"

Truthy(v) == v \notin {None, ""}

ZeroAddress == "0x0000000000000000000000000000000000000000"

KeyStrings == {"", "not-a-key", "0xkey1", "0xkey2"}

WellFormedKey(k) == k \in {"0xkey1", "0xkey2"}

AddressOf(k) == IF k = "0xkey1" THEN "0xAddr1" ELSE "0xAddr2"

Addresses == {ZeroAddress, "0xAddr1", "0xAddr2"}

Cmds == {"get-secret", "get-info", "whoami", "help"}

ArgTokens == {"0xVault", "OPENAI_API_KEY", "GOOGLE_API_KEY", "MISTRAL_API_KEY"}

ChecksumAddress(a) == a \in {"0xVault"}

Bytes == {65, 169, 195, 224, 255}

CodePoints == {65, 233, 2665}

FailKinds == {"NetworkError", "RpcError", "ContractRevertError"}

SeqsUpTo(S, n) == UNION {[1..k -> S] : k \in 0..n}

ABI ==
  << [name |-> "getSecret", inputs |-> <<"address", "bytes32">>,
      outputs |-> <<"bytes">>],
     [name |-> "getSecretInfo", inputs |-> <<"address", "bytes32">>,
      outputs |-> <<"uint64", "bool", "bool">>],
     [name |-> "whoAmI", inputs |-> <<>>, outputs |-> <<"address">>] >>

ABI_test ==
  << [name |-> "getSecret", inputs |-> <<"address", "bytes32">>,
      outputs |-> <<"bytes">>],
     [name |-> "getSecretInfo", inputs |-> <<"address", "bytes32">>,
      outputs |-> <<"uint64", "bool", "bool">>] >>

ProviderNames ==
  << "ANTHROPIC_API_KEY", "OPENAI_API_KEY", "XAI_API_KEY",
     "OPENROUTER_API_KEY", "ZAI_API_KEY", "GOOGLE_API_KEY" >>

PROVIDERS ==
  [n \in {ProviderNames[i] : i \in 1..Len(ProviderNames)} |->
     CASE n = "ANTHROPIC_API_KEY"  -> "keccak(ANTHROPIC_API_KEY)"
       [] n = "OPENAI_API_KEY"     -> "keccak(OPENAI_API_KEY)"
       [] n = "XAI_API_KEY"        -> "keccak(XAI_API_KEY)"
       [] n = "OPENROUTER_API_KEY" -> "keccak(OPENROUTER_API_KEY)"
       [] n = "ZAI_API_KEY"        -> "keccak(ZAI_API_KEY)"
       [] n = "GOOGLE_API_KEY"     -> "keccak(GOOGLE_API_KEY)"]

DictGet(d, k) == IF k \in DOMAIN d THEN d[k] ELSE None

Line(t, v) == [tag |-> t, val |-> v]

MissingKeyMsg == "PRIVATE_KEY environment variable required"

MissingKeyMsg_test == "PRIVATE_KEY env var required"

(* ------------------------------ UTF-8 ---------------------------------- *)
IsCont(b) == b >= 128 /\ b <= 191

SeqLenOf(b) ==
  IF b <= 127 THEN 1
  ELSE IF b >= 194 /\ b <= 223 THEN 2
  ELSE IF b >= 224 /\ b <= 239 THEN 3
  ELSE IF b >= 240 /\ b <= 244 THEN 4
  ELSE 0

SecondOk(lead, b) ==
  CASE lead = 224 -> b >= 160 /\ b <= 191
    [] lead = 237 -> b >= 128 /\ b <= 159
    [] lead = 240 -> b >= 144 /\ b <= 191
    [] lead = 244 -> b >= 128 /\ b <= 143
    [] OTHER -> IsCont(b)

RECURSIVE Utf8DecodeFrom(_, _)
Utf8DecodeFrom(bs, i) ==
  IF i > Len(bs) THEN [ok |-> TRUE, text |-> <<>>]
  ELSE LET b == bs[i]
           n == SeqLenOf(b)
       IN IF n = 0 \/ i + n - 1 > Len(bs) THEN [ok |-> FALSE, text |-> <<>>]
          ELSE IF n >= 2 /\ ~SecondOk(b, bs[i + 1])
            THEN [ok |-> FALSE, text |-> <<>>]
          ELSE IF \E j \in 2..(n - 1) : ~IsCont(bs[i + j])
            THEN [ok |-> FALSE, text |-> <<>>]
          ELSE LET cp == CASE n = 1 -> b
                           [] n = 2 -> (b % 32) * 64 + (bs[i + 1] % 64)
                           [] n = 3 -> (b % 16) * 4096 + (bs[i + 1] % 64) * 64
                                       + (bs[i + 2] % 64)
                           [] n = 4 -> (b % 8) * 262144
                                       + (bs[i + 1] % 64) * 4096
                                       + (bs[i + 2] % 64) * 64
                                       + (bs[i + 3] % 64)
                   rest == Utf8DecodeFrom(bs, i + n)
               IN IF rest.ok THEN [ok |-> TRUE, text |-> <<cp>> \o rest.text]
                  ELSE rest

Utf8Decode(bs) == Utf8DecodeFrom(bs, 1)

(* ------------------------ outcomes of one call ------------------------- *)
Failures(noval) == {[ok |-> FALSE, err |-> k, val |-> noval] : k \in FailKinds}

GetSecretOutcomes ==
  Failures(<<>>) \cup
  {[ok |-> TRUE, err |-> "", val |-> bs] : bs \in SeqsUpTo(Bytes, MaxBytes)}

GetSecretInfoOutcomes ==
  Failures(<<0, FALSE, FALSE>>) \cup
  {[ok |-> TRUE, err |-> "", val |-> <<v, e, a>>] :
     v \in 0..MaxVersion, e \in BOOLEAN, a \in BOOLEAN}

WhoAmIOutcomes ==
  Failures("") \cup {[ok |-> TRUE, err |-> "", val |-> a] : a \in Addresses}

ChainIdOutcomes ==
  {[ok |-> FALSE, err |-> k, val |-> 0] : k \in {"NetworkError", "RpcError"}}
  \cup {[ok |-> TRUE, err |-> "", val |-> 23295]}

(* ------------------------------- Init ---------------------------------- *)
\* env is os.environ as the handlers see it, after load_dotenv() has run at
\* import time.
Envs ==
  {<<>>} \cup {[n \in {"PRIVATE_KEY"} |-> k] : k \in KeyStrings}

EnvGet(name) == IF name \in DOMAIN env THEN env[name] ELSE None

Argvs ==
  {<<"vault_client.py">>} \cup
  {<<"vault_client.py", c>> \o a : c \in Cmds, a \in SeqsUpTo(ArgTokens, MaxArgs)}

Init ==
  /\ script \in {"vault_client", "test_signed_query"}
  /\ argv \in IF script = "vault_client" THEN Argvs
              ELSE {<<"test_signed_query.py">>}
  /\ env \in Envs
  /\ pc = IF script = "vault_client" THEN "ParseArgs" ELSE "t_main"
  /\ handler = "none"
  /\ account = None
  /\ clientBuilt = FALSE
  /\ keyRead = FALSE
  /\ boundAbi = <<>>
  /\ sent = <<>>
  /\ resps = <<>>
  /\ out = <<>>
  /\ exc = "none"

LastResp == resps[Len(resps)]

Terminated == pc \in {"done", "raised"}

Raise(e) == pc' = "raised" /\ exc' = e

(* ---------------------- vault_client.py: main -------------------------- *)
\* main(), lines 163-176: the if/elif chain that selects the handler
\* variant: the argument count of get-secret is tested with >= instead of ==
SelectHandler_atLeast(av) ==
  IF Len(av) < 2 THEN "usage"
  ELSE IF av[2] = "get-secret" /\ Len(av) >= 5 THEN "get_secret"
  ELSE IF av[2] = "get-info" /\ Len(av) = 5 THEN "get_info"
  ELSE IF av[2] = "whoami" /\ Len(av) = 3 THEN "whoami"
  ELSE "usage"

SelectHandler(av) ==
  IF Len(av) < 2 THEN "usage"
  ELSE IF av[2] = "get-secret" /\ Len(av) = 5 THEN "get_secret"
  ELSE IF av[2] = "get-info" /\ Len(av) = 5 THEN "get_info"
  ELSE IF av[2] = "whoami" /\ Len(av) = 3 THEN "whoami"
  ELSE "usage"

ParseArgs ==
  /\ pc = "ParseArgs"
  /\ handler' = SelectHandler(argv)
  /\ pc' = "Dispatch"
  /\ UNCHANGED <<script, argv, env, account, clientBuilt, keyRead, boundAbi,
                 sent, resps, out, exc>>

\* print(__doc__); return
PrintUsage ==
  /\ pc = "Dispatch" /\ handler = "usage"
  /\ out' = Append(out, Line("Usage", "__doc__"))
  /\ pc' = "done"
  /\ UNCHANGED <<script, argv, env, handler, account, clientBuilt, keyRead,
                 boundAbi, sent, resps, exc>>

\* variant: the key is tested with 'is None' instead of 'not private_key'
get_client_isNone ==
  /\ pc = "Dispatch" /\ handler \in {"get_secret", "get_info", "whoami"}
  /\ keyRead' = TRUE
  /\ LET private_key == EnvGet("PRIVATE_KEY")
     IN IF private_key = None
          THEN /\ Raise(MissingKeyMsg)
               /\ UNCHANGED <<account, clientBuilt>>
        ELSE IF ~WellFormedKey(private_key)
          THEN /\ Raise("from_key: invalid private key")
               /\ UNCHANGED <<account, clientBuilt>>
        ELSE /\ account' = AddressOf(private_key)
             /\ clientBuilt' = TRUE
             /\ pc' = handler
             /\ exc' = exc
  /\ UNCHANGED <<script, argv, env, handler, boundAbi, sent, resps, out>>

\* get_client(), called first by each of the three handlers
get_client ==
  /\ pc = "Dispatch" /\ handler \in {"get_secret", "get_info", "whoami"}
  /\ keyRead' = TRUE
  /\ LET private_key == EnvGet("PRIVATE_KEY")
     IN IF ~Truthy(private_key)
          THEN /\ Raise(MissingKeyMsg)
               /\ UNCHANGED <<account, clientBuilt>>
        ELSE IF ~WellFormedKey(private_key)
          THEN /\ Raise("from_key: invalid private key")
               /\ UNCHANGED <<account, clientBuilt>>
        ELSE /\ account' = AddressOf(private_key)
             /\ clientBuilt' = TRUE
             /\ pc' = handler
             /\ exc' = exc
  /\ UNCHANGED <<script, argv, env, handler, boundAbi, sent, resps, out>>

\* w3.eth.contract(address=..., abi=...): the factory rejects an address
\* that is not a checksum address
BindContract(addr, abi, next) ==
  IF ChecksumAddress(addr)
    THEN boundAbi' = abi /\ pc' = next /\ exc' = exc
    ELSE boundAbi' = boundAbi /\ Raise("InvalidAddress")

(* -------------------- vault_client.py: get_secret ---------------------- *)
get_secret_resolve ==
  /\ pc = "get_secret"
  /\ LET owner == argv[4]
         provider == argv[5]
         provider_id == DictGet(PROVIDERS, provider)
         head == out \o << Line("Caller", account), Line("Owner", owner),
                           Line("Provider", provider) >>
     IN IF ~Truthy(provider_id)
          THEN /\ out' = Append(head, Line("UnknownProvider", ProviderNames))
               /\ pc' = "done"
               /\ UNCHANGED <<boundAbi, exc>>
          ELSE /\ out' = head
               /\ BindContract(argv[3], ABI, "get_secret_call")
  /\ UNCHANGED <<script, argv, env, handler, account, clientBuilt, keyRead,
                 sent, resps>>

\* variant: the except branch prints an empty success line
get_secret_call_swallow ==
  /\ pc = "get_secret_call"
  /\ \E r \in GetSecretOutcomes :
       /\ sent' = Append(sent, "getSecret")
       /\ resps' = Append(resps, r)
       /\ out' = IF r.ok /\ Utf8Decode(r.val).ok
                   THEN Append(out, Line("Secret", Utf8Decode(r.val).text))
                 ELSE Append(out, Line("Secret", <<>>))
  /\ pc' = "done"
  /\ UNCHANGED <<script, argv, env, handler, account, clientBuilt, keyRead,
                 boundAbi, exc>>

\* variant: the bytes are decoded one byte per character and never rejected
get_secret_call_latin1 ==
  /\ pc = "get_secret_call"
  /\ \E r \in GetSecretOutcomes :
       /\ sent' = Append(sent, "getSecret")
       /\ resps' = Append(resps, r)
       /\ out' = IF ~r.ok THEN Append(out, Line("Error", r.err))
                 ELSE Append(out, Line("Secret", r.val))
  /\ pc' = "done"
  /\ UNCHANGED <<script, argv, env, handler, account, clientBuilt, keyRead,
                 boundAbi, exc>>

get_secret_call ==
  /\ pc = "get_secret_call"
  /\ \E r \in GetSecretOutcomes :
       /\ sent' = Append(sent, "getSecret")
       /\ resps' = Append(resps, r)
       /\ out' = IF ~r.ok THEN Append(out, Line("Error", r.err))
                 ELSE IF Utf8Decode(r.val).ok
                   THEN Append(out, Line("Secret", Utf8Decode(r.val).text))
                 ELSE Append(out, Line("Error", "UnicodeDecodeError"))
  /\ pc' = "done"
  /\ UNCHANGED <<script, argv, env, handler, account, clientBuilt, keyRead,
                 boundAbi, exc>>

(* --------------------- vault_client.py: get_info ----------------------- *)
\* variant: the 'return' after the unknown-provider message is missing
get_info_resolve_noReturn ==
  /\ pc = "get_info"
  /\ LET provider == argv[5]
         provider_id == DictGet(PROVIDERS, provider)
         head == Append(out, Line("Caller", account))
     IN /\ out' = IF ~Truthy(provider_id)
                    THEN Append(head, Line("UnknownProvider", ProviderNames))
                  ELSE head
        /\ BindContract(argv[3], ABI, "get_info_call")
  /\ UNCHANGED <<script, argv, env, handler, account, clientBuilt, keyRead,
                 sent, resps>>

get_info_resolve ==
  /\ pc = "get_info"
  /\ LET provider == argv[5]
         provider_id == DictGet(PROVIDERS, provider)
         head == Append(out, Line("Caller", account))
     IN IF ~Truthy(provider_id)
          THEN /\ out' = Append(head, Line("UnknownProvider", ProviderNames))
               /\ pc' = "done"
               /\ UNCHANGED <<boundAbi, exc>>
          ELSE /\ out' = head
               /\ BindContract(argv[3], ABI, "get_info_call")
  /\ UNCHANGED <<script, argv, env, handler, account, clientBuilt, keyRead,
                 sent, resps>>

InfoLines(result) ==
  << Line("Version", result[1]), Line("Exists", result[2]),
     Line("IsAllowed", result[3]) >>

\* variant: a failed call is sent a second time
get_info_call_retry ==
  /\ pc = "get_info_call"
  /\ \E r \in GetSecretInfoOutcomes :
       IF r.ok
         THEN /\ sent' = Append(sent, "getSecretInfo")
              /\ resps' = Append(resps, r)
              /\ out' = out \o InfoLines(r.val)
         ELSE \E r2 \in GetSecretInfoOutcomes :
              /\ sent' = sent \o <<"getSecretInfo", "getSecretInfo">>
              /\ resps' = resps \o <<r, r2>>
              /\ out' = IF r2.ok THEN out \o InfoLines(r2.val)
                        ELSE Append(out, Line("Error", r2.err))
  /\ pc' = "done"
  /\ UNCHANGED <<script, argv, env, handler, account, clientBuilt, keyRead,
                 boundAbi, exc>>

get_info_call ==
  /\ pc = "get_info_call"
  /\ \E r \in GetSecretInfoOutcomes :
       /\ sent' = Append(sent, "getSecretInfo")
       /\ resps' = Append(resps, r)
       /\ out' = IF r.ok THEN out \o InfoLines(r.val)
                 ELSE Append(out, Line("Error", r.err))
  /\ pc' = "done"
  /\ UNCHANGED <<script, argv, env, handler, account, clientBuilt, keyRead,
                 boundAbi, exc>>

(* ---------------------- vault_client.py: whoami ------------------------ *)
abi_with_whoami ==
  ABI \o << [name |-> "whoAmI", inputs |-> <<>>, outputs |-> <<"address">>] >>

whoami_begin ==
  /\ pc = "whoami"
  /\ out' = Append(out, Line("Expected", account))
  /\ BindContract(argv[3], abi_with_whoami, "whoami_call")
  /\ UNCHANGED <<script, argv, env, handler, account, clientBuilt, keyRead,
                 sent, resps>>

\* variant: the zero-address branch is missing
Verdict_noZero(result, address) ==
  IF result = address THEN "Signed queries working!"
  ELSE "Unexpected result"

Verdict(result, address) ==
  IF result = address THEN "Signed queries working!"
  ELSE IF result = ZeroAddress THEN "Unsigned (msg.sender = address(0))"
  ELSE "Unexpected result"

whoami_call ==
  /\ pc = "whoami_call"
  /\ \E r \in WhoAmIOutcomes :
       /\ sent' = Append(sent, "whoAmI")
       /\ resps' = Append(resps, r)
       /\ out' = IF r.ok
                   THEN out \o << Line("Returned", r.val),
                                  Line("Verdict", Verdict(r.val, account)) >>
                 ELSE Append(out, Line("Error", r.err))
  /\ pc' = "done"
  /\ UNCHANGED <<script, argv, env, handler, account, clientBuilt, keyRead,
                 boundAbi, exc>>

(* -------------------- test_signed_query.py: main ----------------------- *)
\* lines 42-47: read the key, derive the account, print the signer
t_load_key ==
  /\ pc = "t_main"
  /\ keyRead' = TRUE
  /\ LET private_key == EnvGet("PRIVATE_KEY")
     IN IF ~Truthy(private_key)
          THEN /\ Raise(MissingKeyMsg_test)
               /\ UNCHANGED <<account, out>>
        ELSE IF ~WellFormedKey(private_key)
          THEN /\ Raise("from_key: invalid private key")
               /\ UNCHANGED <<account, out>>
        ELSE /\ account' = AddressOf(private_key)
             /\ out' = Append(out, Line("Signer", AddressOf(private_key)))
             /\ pc' = "t_connect"
             /\ exc' = exc
  /\ UNCHANGED <<script, argv, env, handler, clientBuilt, boundAbi, sent,
                 resps>>

\* lines 50-56: wrap the client, read the chain id, bind the contract
t_connect ==
  /\ pc = "t_connect"
  /\ clientBuilt' = TRUE
  /\ \E r \in ChainIdOutcomes :
       /\ sent' = Append(sent, "eth_chainId")
       /\ resps' = Append(resps, r)
       /\ IF r.ok
            THEN /\ out' = Append(out, Line("ChainId", r.val))
                 /\ boundAbi' = ABI_test
                 /\ pc' = "t_test1"
                 /\ exc' = exc
            ELSE /\ Raise(r.err)
                 /\ UNCHANGED <<out, boundAbi>>
  /\ UNCHANGED <<script, argv, env, handler, account, keyRead>>

\* variant: Test 1 without its try/except
t_test1_noTry ==
  /\ pc = "t_test1"
  /\ \E r \in GetSecretInfoOutcomes :
       /\ sent' = Append(sent, "getSecretInfo")
       /\ resps' = Append(resps, r)
       /\ IF r.ok
            THEN /\ out' = Append(out, Line("Banner", "Test 1")) \o InfoLines(r.val)
                 /\ pc' = "t_test2"
                 /\ exc' = exc
            ELSE /\ out' = Append(out, Line("Banner", "Test 1"))
                 /\ Raise(r.err)
  /\ UNCHANGED <<script, argv, env, handler, account, clientBuilt, keyRead,
                 boundAbi>>

\* lines 59-66: Test 1, getSecretInfo
t_test1 ==
  /\ pc = "t_test1"
  /\ \E r \in GetSecretInfoOutcomes :
       /\ sent' = Append(sent, "getSecretInfo")
       /\ resps' = Append(resps, r)
       /\ out' = Append(out, Line("Banner", "Test 1")) \o
                 (IF r.ok THEN InfoLines(r.val)
                  ELSE << Line("Error", r.err) >>)
  /\ pc' = "t_test2"
  /\ UNCHANGED <<script, argv, env, handler, account, clientBuilt, keyRead,
                 boundAbi, exc>>

\* lines 69-77: Test 2, getSecret, then the closing banner
t_test2 ==
  /\ pc = "t_test2"
  /\ \E r \in GetSecretOutcomes :
       /\ sent' = Append(sent, "getSecret")
       /\ resps' = Append(resps, r)
       /\ out' = Append(out, Line("Banner", "Test 2")) \o
                 << (IF ~r.ok THEN Line("Error", r.err)
                     ELSE IF Utf8Decode(r.val).ok
                       THEN Line("Secret", Utf8Decode(r.val).text)
                     ELSE Line("Error", "UnicodeDecodeError")),
                    Line("Banner", "=== Test Complete ===") >>
  /\ pc' = "done"
  /\ UNCHANGED <<script, argv, env, handler, account, clientBuilt, keyRead,
                 boundAbi, exc>>

(* --------------------------- specification ----------------------------- *)
Next ==
  \/ ParseArgs
  \/ PrintUsage
  \/ get_client
  \/ get_secret_resolve
  \/ get_secret_call
  \/ get_info_resolve
  \/ get_info_call
  \/ whoami_begin
  \/ whoami_call
  \/ t_load_key
  \/ t_connect
  \/ t_test1
  \/ t_test2

Spec == Init /\ [][Next]_vars

\* The interpreter runs the single thread to completion: a step that is
\* enabled is eventually taken.
FairSpec == Spec /\ WF_vars(Next)

(* ======================= properties of the clients ===================== *)
HasLine(t) == \E i \in 1..Len(out) : out[i].tag = t

LinesWith(t) == {i \in 1..Len(out) : out[i].tag = t}

Vault == script = "vault_client"

KeyMissing == "PRIVATE_KEY" \notin DOMAIN env \/ env["PRIVATE_KEY"] = ""

KeyUsable == ~KeyMissing /\ env["PRIVATE_KEY"] \in {"0xkey1", "0xkey2"}

\* str.encode('utf-8') of one code point and of a text
EncodeCp(c) ==
  IF c < 128 THEN <<c>>
  ELSE IF c < 2048 THEN <<192 + (c \div 64), 128 + (c % 64)>>
  ELSE IF c < 65536
    THEN <<224 + (c \div 4096), 128 + ((c \div 64) % 64), 128 + (c % 64)>>
  ELSE <<240 + (c \div 262144), 128 + ((c \div 4096) % 64),
         128 + ((c \div 64) % 64), 128 + (c % 64)>>

RECURSIVE Utf8Encode(_)
Utf8Encode(s) == IF s = <<>> THEN <<>> ELSE EncodeCp(Head(s)) \o Utf8Encode(Tail(s))

Texts == SeqsUpTo(CodePoints, MaxBytes)

\* C1: in vault_client.py no exception ever propagates out of main(): every
\* downstream error, the missing or malformed PRIVATE_KEY included, is caught
\* in the handler and printed.
C1_NoExceptionEscapesMain == Vault => pc # "raised"

UnknownProviderRun ==
  /\ Vault
  /\ handler \in {"get_secret", "get_info"}
  /\ argv[5] \notin {"ANTHROPIC_API_KEY", "OPENAI_API_KEY", "XAI_API_KEY",
                     "OPENROUTER_API_KEY", "ZAI_API_KEY", "GOOGLE_API_KEY"}

\* C2 (as stated): get-secret or get-info with a provider name outside the
\* table prints the list of valid names and sends no contract call, whatever
\* the environment, PRIVATE_KEY set or not.
C2_UnknownProviderAlwaysListed ==
  UnknownProviderRun =>
    /\ sent = <<>>
    /\ Terminated => HasLine("UnknownProvider")

\* C2 (amended): with a provider name outside the table no contract call is
\* sent and no contract is bound; when PRIVATE_KEY is set and well formed the
\* run ends normally with the list of the six valid names as its last line,
\* and otherwise it ends with the key error raised by get_client and the
\* list is not printed.
C2_UnknownProviderListedWhenKeyUsable ==
  UnknownProviderRun =>
    /\ sent = <<>>
    /\ Len(boundAbi) = 0
    /\ Terminated =>
         IF KeyUsable
           THEN /\ pc = "done"
                /\ LinesWith("UnknownProvider") = {Len(out)}
                /\ out[Len(out)].val =
                     << "ANTHROPIC_API_KEY", "OPENAI_API_KEY", "XAI_API_KEY",
                        "OPENROUTER_API_KEY", "ZAI_API_KEY", "GOOGLE_API_KEY" >>
           ELSE /\ pc = "raised"
                /\ ~HasLine("UnknownProvider")

C2_Witness ==
  /\ UnknownProviderRun /\ handler = "get_info" /\ pc = "done"
  /\ HasLine("UnknownProvider")

\* C3: with PRIVATE_KEY unset or empty, every dispatched command of
\* vault_client.py aborts with 'PRIVATE_KEY environment variable required'
\* before the RPC client is built; no contract is bound and no call is sent.
C3_MissingKeyAbortsBeforeAnyCall ==
  (Vault /\ KeyMissing) =>
    /\ sent = <<>>
    /\ ~clientBuilt
    /\ Len(boundAbi) = 0
    /\ keyRead => (pc = "raised"
                   /\ exc = "PRIVATE_KEY environment variable required")
    /\ (Terminated /\ handler \in {"get_secret", "get_info", "whoami"})
         => keyRead

C3_Witness ==
  /\ Vault /\ handler = "whoami" /\ pc = "raised"
  /\ "PRIVATE_KEY" \in DOMAIN env /\ env["PRIVATE_KEY"] = ""

CmdArgs == SubSeq(argv, 3, Len(argv))

C4_Inv ==
  Vault =>
    /\ (pc = "ParseArgs") <=> (handler = "none")
    /\ handler # "none" =>
         /\ handler = "get_secret"
              <=> (Len(argv) >= 2 /\ argv[2] = "get-secret" /\ Len(CmdArgs) = 3)
         /\ handler = "get_info"
              <=> (Len(argv) >= 2 /\ argv[2] = "get-info" /\ Len(CmdArgs) = 3)
         /\ handler = "whoami"
              <=> (Len(argv) >= 2 /\ argv[2] = "whoami" /\ Len(CmdArgs) = 1)
         /\ handler \in {"get_secret", "get_info", "whoami", "usage"}
    /\ handler = "usage" =>
         /\ ~keyRead /\ ~clientBuilt /\ sent = <<>> /\ exc = "none"
         /\ pc \in {"Dispatch", "done"}
         /\ pc = "done" => (Len(out) = 1 /\ out[1].tag = "Usage")
         /\ pc = "Dispatch" => out = <<>>

\* C4: main() is a ParseArgs -> Dispatch machine that always terminates; a
\* handler is selected iff argv is get-secret or get-info with exactly three
\* arguments or whoami with exactly one; every other argv prints the usage
\* text, reads no PRIVATE_KEY, sends no call and returns normally.
C4_ParseDispatchTerminates == [](C4_Inv) /\ <>Terminated

C4_Witness ==
  /\ Vault /\ pc = "done" /\ handler = "usage"
  /\ Len(argv) = 5 /\ argv[2] = "whoami"

\* C5: a run of vault_client.py sends at most one contract call; a call that
\* failed is not sent again.
C5_AtMostOneCall == Vault => Len(sent) <= 1 /\ Len(resps) = Len(sent)

C5_Witness == Vault /\ pc = "done" /\ Len(sent) = 1 /\ ~LastResp.ok

\* C6: an unauthorized caller never gets a success-looking output: when
\* getSecret reverts, get-secret prints an error line and no secret line;
\* when getSecretInfo reverts or reports isAllowed = false, get-info prints
\* an error line or the line IsAllowed: False, and never IsAllowed: True.
C6_UnauthorizedIsVisible ==
  (Vault /\ pc = "done" /\ Len(sent) = 1) =>
    /\ (handler = "get_secret" /\ ~LastResp.ok)
         => (Cardinality(LinesWith("Error")) = 1 /\ ~HasLine("Secret"))
    /\ (handler = "get_info" /\ ~LastResp.ok)
         => (Cardinality(LinesWith("Error")) = 1 /\ ~HasLine("IsAllowed"))
    /\ (handler = "get_info" /\ LastResp.ok /\ LastResp.val[3] = FALSE)
         => /\ Cardinality(LinesWith("IsAllowed")) = 1
            /\ \A i \in LinesWith("IsAllowed") : out[i].val = FALSE

C6_Witness ==
  /\ Vault /\ pc = "done" /\ handler = "get_secret" /\ Len(sent) = 1
  /\ ~LastResp.ok /\ LastResp.err = "ContractRevertError"

\* C7: after the getSecret call of get-secret exactly one of the success line
\* and the error line is printed; bytes that are the UTF-8 encoding of a text
\* s give the success line carrying exactly s; a failed call or bytes that
\* are not valid UTF-8 give the error line only.
C7_SecretRoundTrip ==
  (Vault /\ handler = "get_secret" /\ pc = "done" /\ Len(sent) = 1) =>
    /\ Cardinality(LinesWith("Secret") \cup LinesWith("Error")) = 1
    /\ LastResp.ok =>
         \A s \in Texts :
           Utf8Encode(s) = LastResp.val =>
             \A i \in LinesWith("Secret") \cup LinesWith("Error") :
               out[i].tag = "Secret" /\ out[i].val = s
    /\ (~LastResp.ok \/ \A s \in Texts : Utf8Encode(s) # LastResp.val)
         => (HasLine("Error") /\ ~HasLine("Secret"))

C7_Witness ==
  /\ Vault /\ handler = "get_secret" /\ pc = "done" /\ Len(sent) = 1
  /\ LastResp.ok /\ LastResp.val = <<195, 169, 65>>
  /\ HasLine("Secret")

\* C8: when the whoAmI call returns, whoami prints the expected (signer)
\* address, the returned address and exactly one verdict: working iff the
\* returned address is the signer's, unsigned iff it is the zero address and
\* not the signer's, unexpected for every other address.
C8_WhoamiVerdict ==
  (Vault /\ handler = "whoami" /\ pc = "done" /\ LastResp.ok) =>
    LET signer == IF env["PRIVATE_KEY"] = "0xkey1" THEN "0xAddr1" ELSE "0xAddr2"
        ret == LastResp.val
    IN /\ Len(out) = 3
       /\ out[1].tag = "Expected" /\ out[1].val = signer
       /\ out[2].tag = "Returned" /\ out[2].val = ret
       /\ out[3].tag = "Verdict"
       /\ out[3].val = "Signed queries working!" <=> ret = signer
       /\ out[3].val = "Unsigned (msg.sender = address(0))"
            <=> (ret = "0x0000000000000000000000000000000000000000"
                 /\ ret # signer)
       /\ out[3].val = "Unexpected result"
            <=> (ret # signer
                 /\ ret # "0x0000000000000000000000000000000000000000")

C8_Witness ==
  /\ Vault /\ handler = "whoami" /\ pc = "done" /\ LastResp.ok
  /\ LastResp.val = "0x0000000000000000000000000000000000000000"
  /\ out[3].val = "Unsigned (msg.sender = address(0))"

\* C9: every command of vault_client.py hands the contract factory the same
\* ABI of exactly three entries, getSecret, getSecretInfo and whoAmI, each
\* name occurring exactly once.
C9_ThreeEntryAbi ==
  (Vault /\ Len(boundAbi) > 0) =>
    /\ Len(boundAbi) = 3
    /\ \A n \in {"getSecret", "getSecretInfo", "whoAmI"} :
         Cardinality({i \in 1..Len(boundAbi) : boundAbi[i].name = n}) = 1

\* C10: in test_signed_query.py, once the key is loaded and the chain id is
\* read, getSecretInfo and then getSecret are each called exactly once in
\* that order whatever the first call's outcome; a failed call prints an
\* error line, and the run ends with '=== Test Complete ==='.
C10_BothTestsRun ==
  (script = "test_signed_query" /\ Len(sent) >= 1 /\ resps[1].ok) =>
    /\ pc \in {"t_test1", "t_test2", "done"}
    /\ pc = "t_test1" => sent = <<"eth_chainId">>
    /\ pc = "t_test2" => sent = <<"eth_chainId", "getSecretInfo">>
    /\ pc = "done" =>
         /\ sent = <<"eth_chainId", "getSecretInfo", "getSecret">>
         /\ out[Len(out)].tag = "Banner"
         /\ out[Len(out)].val = "=== Test Complete ==="
         /\ Cardinality(LinesWith("Error"))
              >= Cardinality({i \in 2..3 : ~resps[i].ok})
    /\ (Len(resps) >= 2 /\ ~resps[2].ok) => HasLine("Error")

C10_Witness ==
  /\ script = "test_signed_query" /\ pc = "done"
  /\ ~resps[2].ok /\ resps[3].ok /\ HasLine("Secret")

====
